---- MODULE Spec2Model ----
(***************************************************************************)
(* Terabox automation pipeline: ingestion handler, bounded queue, the      *)
(* queue-draining driver and TeraboxProcessor.process_message with         *)
(* download_and_upload_file and send_details_summary.                      *)
(*                                                                         *)
(* Two implementations are modelled, selected by `impl`:                   *)
(*   "bot"        src/bot/modules/terabox_automation.py                    *)
(*   "standalone" src/terabox_automation.py                                *)
(* They share process_message, the queue and the driver and differ in the  *)
(* exception structure of download_and_upload_file.                        *)
(*                                                                         *)
(* Scheduling is asyncio's: a coroutine runs without interruption between  *)
(* two awaits.  A task whose pc is a label of Suspended is parked at an    *)
(* await; any other label is a task holding the event loop, and no other   *)
(* task or callback steps until it parks again.                            *)
(***************************************************************************)
EXTENDS Integers, Sequences, FiniteSets, TLC

\* ------------------------------------------------------------------ bounds
\* Config.MAX_CONCURRENT_DOWNLOADS (3 in the source), scaled down.
MAX_CONCURRENT_DOWNLOADS == 1
\* Config.QUEUE_MAX_SIZE (100 in the source), scaled down.
QUEUE_MAX_SIZE == 2
\* Messages the source channel delivers in one run of the pipeline (Spec), and
\* external calls the environment makes fail in it.
MaxMsgs == 4
PipelineFaults == 1
\* The same for the runs that explore one or two batches in depth (SpecBatch).
BatchMsgs == 1
\* Links extracted from one message.
MaxLinks == 2
\* Entries of a multi-file resolver answer.
MaxFiles == 2
\* Concurrent callers of process_message in the gate harness (SpecGate).
NCallers == 3
\* Failures injected, and links of one item, in the gate harness.
GateFaults == 1
GateLinks == 2
\* Messages delivered and failures injected in the runs checked for progress
\* (SpecLive).
LiveMsgs == 2
LiveFaults == 1
\* Messages delivered and failures injected while the driver shares the
\* processor with other callers (SpecMixed).
MixMsgs == 2
MixFaults == 1
\* Messages delivered and failures injected in the runs with the status
\* command and the pipeline flag (SpecOps).
OpsMsgs == 2
OpsFaults == 1
\* Failures (resolver, fetch, relay, os.remove, summary) injected in SpecBatch.
MaxFaults == 2
\* Symbols of a text handed to extract_terabox_links (SpecExtract).
MaxText == 5
\* Largest value tried for a numeric setting of TeraboxConfig (SpecValidate).
MaxSetting == 11

\* ------------------------------------------------------------------- state
VARIABLES
    impl,                   \* which source file is running
    queue,                  \* terabox_queue / message_queue
    processing_active,      \* module-level flag
    nextMsg,                \* id of the next inbound message
    active_downloads,       \* TeraboxProcessor.active_downloads
    disk,                   \* temporary files that exist
    pc,                     \* task -> position
    message_data,           \* task -> item being processed
    i,                      \* task -> enumerate index of process_message
    all_uploaded_file_ids,  \* task -> list built by process_message
    file_ids,               \* task -> value returned by download_and_upload_file
    filenames,              \* task -> names of the resolved files
    j,                      \* task -> position in zip(file_urls, filenames)
    uploaded_file_ids,      \* task -> list built by download_and_upload_file
    temp_file_path,         \* task -> local of download_and_upload_file
    faults,                 \* failures the environment has injected so far
    budget,                 \* what the environment may do in this run
    hist,                   \* task -> observations of the current call
    ingest,                 \* observation of the last ingestion callback
    status,                 \* what the last status command replied
    text,                   \* argument of extract_terabox_links
    terabox_links,          \* value returned by extract_terabox_links
    config,                 \* attributes of TeraboxConfig
    errors                  \* value returned by validate_config

surface == <<status, text, terabox_links, config, errors>>
world == <<impl, surface, budget, queue, processing_active, nextMsg, active_downloads>>
prog == <<world, disk, faults>>
pmLocals == <<message_data, i, all_uploaded_file_ids, file_ids>>
dufLocals == <<filenames, j, uploaded_file_ids, temp_file_path>>
vars == <<impl, status, text, terabox_links, config, errors,
          budget, queue, processing_active, nextMsg, active_downloads, disk, pc,
          message_data, i, all_uploaded_file_ids, file_ids, filenames, j,
          uploaded_file_ids, temp_file_path, faults, hist, ingest>>

Driver == 0
Callers == 1..NCallers
Tasks == {Driver} \cup Callers

Impls == {"bot", "standalone"}

\* Labels at which a task is parked at an await (or is not running at all).
Suspended == {"off", "idle", "done", "drv_idle", "duf_send", "pm_sleep", "sum_send"}

\* Task t may take a step: nobody else holds the event loop.
CanRun(t) == \A u \in Tasks \ {t} : pc[u] \in Suspended

\* The event loop is free to dispatch a callback.
LoopFree == \A u \in Tasks : pc[u] \in Suspended

\* The environment makes one more external call fail.
Fault == faults < budget.faults /\ faults' = faults + 1

\* A name not yet bound (temp_file_path before its first assignment).
Unbound == <<>>

NoItem == [msg |-> 0, links |-> <<>>]

\* Observations of one process_message call (history, not program state).
NoHist == [entryActive |-> 0,      \* active_downloads when the call was entered
           admitted |-> FALSE,     \* the call incremented the counter
           refused |-> FALSE,      \* the call took the refusal branch
           released |-> 0,         \* decrements done by the call
           resolved |-> 0,         \* links handed to the resolver
           multi |-> FALSE,        \* the current link resolved to a contents list
           attempted |-> {},       \* current link: files whose fetch was started
           relayed |-> <<>>,       \* current link: ids returned by send_document
           fetched |-> {},         \* current link: paths whose fetch completed
           wrote |-> {},           \* current link: paths written by a failed fetch
           fetchFailed |-> FALSE,  \* current link: a fetch raised
           relayRaised |-> FALSE,  \* current link: send_document raised
           rmRaised |-> FALSE,     \* current link: os.remove raised
           batchFailed |-> FALSE,  \* batch: a resolve, fetch or relay raised
           batchRmRaised |-> FALSE,\* batch: os.remove raised
           batchRelayed |-> <<>>,  \* batch: ids returned by send_document
           reportCalls |-> <<>>,   \* batch: id lists passed to send_details_summary
           delivered |-> <<>>,     \* batch: summaries that were sent
           summaryRaised |-> FALSE,\* batch: send_message raised
           fetchCalls |-> 0,       \* current link: session.get calls
           relayCalls |-> 0,       \* current link: send_document calls
           raisedAt |-> {},        \* batch: indices of the links whose resolve raised
           kept |-> <<>>,          \* batch: ids collected when a resolve last raised
           expected |-> <<>>,      \* batch, until something fails: one id per
                                   \* file the resolver named
           sleeps |-> 0]           \* batch: asyncio.sleep(PROCESS_DELAY) calls completed

\* ------------------------------------------------------------ pure helpers
\* Mutant of Full: the capacity test is off by one.
Full_OffByOne(q) == QUEUE_MAX_SIZE > 0 /\ Len(q) > QUEUE_MAX_SIZE

\* queue.Queue.full(): a maxsize <= 0 means unbounded.
Full(q) == QUEUE_MAX_SIZE > 0 /\ Len(q) >= QUEUE_MAX_SIZE

\* f"TeraboxFile_{i}..." for a single target (name 0), the resolver's filename
\* for entry k of a contents list (name k); the temporary path is derived from
\* the link's index and the name.
TempPath(idx, name) == <<idx, name>>

\* What terabox(url) can return: a direct link (one file named by the caller)
\* or a dict whose contents list has 0..MaxFiles entries.
SingleTarget == <<0>>
MultiTarget(n) == [k \in 1..n |-> k]
ResolverAnswers == {SingleTarget} \cup {MultiTarget(n) : n \in 0..MaxFiles}

\* sent_message.id: the destination chat gives every relayed file its own id.
SentId(t) == <<message_data[t].msg, i[t], filenames[t][j[t]]>>

\* Per-link observations are cleared when download_and_upload_file is entered.
LinkHist(h) == [h EXCEPT !.multi = FALSE, !.attempted = {}, !.relayed = <<>>,
                         !.fetched = {}, !.wrote = {}, !.fetchFailed = FALSE,
                         !.relayRaised = FALSE, !.rmRaised = FALSE,
                         !.fetchCalls = 0, !.relayCalls = 0]

\* What the last ingestion callback did with its message ("skipped": no
\* link, "ok": enqueued, "full": refused), whether it replied to the
\* submitter, and whether any message was refused so far.
NoIngest == [result |-> "none", replied |-> FALSE, dropped |-> FALSE]

\* No status command was answered yet; extract_terabox_links was not called.
NoStatus == [asked |-> FALSE]
NotCalled == << <<"not called">> >>

\* TeraboxConfig.DEBUG_MODE
DEBUG_MODE == TRUE

\* ----------------------------------------------------- extract_terabox_links
\* A text is a sequence of symbols: a symbol is one character or, written in
\* one piece, the `https://<domain>/` head of a link.  Two of the seventeen
\* patterns of the catalog are kept, and one head in a second spelling.
Space == " "
terabox_patterns == <<"https://terabox.com/", "https://nephobox.com/">>
UpperSpelling == "HTTPS://TERABOX.COM/"
Alphabet == {terabox_patterns[1], terabox_patterns[2], UpperSpelling, "x", "y", Space}
Texts == UNION {[1..n -> Alphabet] : n \in 0..MaxText}

\* re.IGNORECASE: the pattern is compared with the case-folded symbol.
CaseFold(c) == IF c = UpperSpelling THEN terabox_patterns[1] ELSE c

\* Greedy [^\s]+ : the last position of the run of non-space symbols at k.
RECURSIVE RunEnd(_, _)
RunEnd(txt, k) ==
    IF k < Len(txt) /\ txt[k + 1] # Space THEN RunEnd(txt, k + 1) ELSE k

\* Pattern p matches at position k: its head, then at least one non-space.
MatchAt(p, txt, k) ==
    /\ CaseFold(txt[k]) = terabox_patterns[p]
    /\ k < Len(txt)
    /\ txt[k + 1] # Space

\* re.findall(pattern, text, re.IGNORECASE) from position k on: the matches
\* from left to right, each search resuming behind the previous match.
RECURSIVE findall(_, _, _)
findall(p, txt, k) ==
    IF k > Len(txt) THEN <<>>
    ELSE IF MatchAt(p, txt, k)
         THEN <<SubSeq(txt, k, RunEnd(txt, k + 1))>> \o findall(p, txt, RunEnd(txt, k + 1) + 1)
         ELSE findall(p, txt, k + 1)

\* `links` after the first p patterns of the loop: links.extend(matches).
RECURSIVE LinksAfter(_, _)
LinksAfter(txt, p) ==
    IF p = 0 THEN <<>> ELSE LinksAfter(txt, p - 1) \o findall(p, txt, 1)

\* list(set(...)): the elements of the set, once each, in an order the
\* interpreter chooses.
ListsOfSet(S) == {l \in [1..Cardinality(S) -> S] : {l[k] : k \in DOMAIN l} = S}

\* Mutant of extract_terabox_links: the list is returned as collected.
extract_terabox_links_KeepsDuplicates(txt) ==
    {LinksAfter(txt, Len(terabox_patterns))}

\* The values extract_terabox_links(text) can return.
extract_terabox_links(txt) ==
    LET links == LinksAfter(txt, Len(terabox_patterns))
    IN  ListsOfSet({links[k] : k \in DOMAIN links})

\* One call of extract_terabox_links on the text of the run.
Extract ==
    /\ terabox_links = NotCalled
    /\ terabox_links' \in extract_terabox_links(text)
    /\ UNCHANGED <<impl, status, text, config, errors, budget, queue, processing_active, nextMsg, active_downloads, disk, faults>>
    /\ UNCHANGED <<pc, pmLocals, dufLocals, hist, ingest>>

\* ----------------------------------------------------------- validate_config
\* Channel ids, scaled to their last two digits: the placeholders
\* -1001234567890, -1001234567891, -1001234567892 of validate_config and the
\* ids -1002487065354, -1002176533426, -1002271035070 the file ships with.
SOURCE_PLACEHOLDER == -90
DESTINATION_PLACEHOLDER == -91
DETAILS_PLACEHOLDER == -92
SOURCE_CHANNEL_ID == -54
DESTINATION_CHANNEL_ID == -26
DETAILS_CHANNEL_ID == -70

\* class TeraboxConfig as the pipeline runs with it; the two capacities are the
\* scaled ones of this model.
TeraboxConfig ==
    [BOT_TOKEN |-> "token", TELEGRAM_API |-> 1, TELEGRAM_HASH |-> "hash",
     SOURCE_CHANNEL_ID |-> SOURCE_CHANNEL_ID,
     DESTINATION_CHANNEL_ID |-> DESTINATION_CHANNEL_ID,
     DETAILS_CHANNEL_ID |-> DETAILS_CHANNEL_ID,
     MAX_CONCURRENT_DOWNLOADS |-> MAX_CONCURRENT_DOWNLOADS,
     QUEUE_MAX_SIZE |-> QUEUE_MAX_SIZE,
     PROCESS_DELAY |-> 2]

\* The attribute values validate_config is run on: strings for the token and
\* the hash, integers for everything else.
ChannelIds == {0, SOURCE_PLACEHOLDER, DESTINATION_PLACEHOLDER, DETAILS_PLACEHOLDER}
Configs ==
    [BOT_TOKEN : {"", "token"}, TELEGRAM_API : {0, 1}, TELEGRAM_HASH : {"", "hash"},
     SOURCE_CHANNEL_ID : ChannelIds,
     DESTINATION_CHANNEL_ID : ChannelIds,
     DETAILS_CHANNEL_ID : ChannelIds,
     MAX_CONCURRENT_DOWNLOADS : 0..MaxSetting,
     QUEUE_MAX_SIZE : 0..MaxSetting,
     PROCESS_DELAY : {-1, 0, 1}]

\* validate_config was not called yet.
NotValidated == <<"not called">>

\* if cond: errors.append(msg)
AppendIf(errs, cond, msg) == IF cond THEN Append(errs, msg) ELSE errs

\* Mutant of validate_config: the three numeric tests form an if/elif chain.
validate_config_ElifNumeric(c) ==
    LET e1 == AppendIf(<<>>, c.BOT_TOKEN = "", "BOT_TOKEN is required")
        e2 == AppendIf(e1, c.TELEGRAM_API = 0, "TELEGRAM_API is required")
        e3 == AppendIf(e2, c.TELEGRAM_HASH = "", "TELEGRAM_HASH is required")
        e4 == AppendIf(e3, c.SOURCE_CHANNEL_ID = 0 \/ c.SOURCE_CHANNEL_ID = SOURCE_PLACEHOLDER,
                       "Please set a valid SOURCE_CHANNEL_ID")
        e5 == AppendIf(e4, c.DESTINATION_CHANNEL_ID = 0
                             \/ c.DESTINATION_CHANNEL_ID = DESTINATION_PLACEHOLDER,
                       "Please set a valid DESTINATION_CHANNEL_ID")
        e6 == AppendIf(e5, c.DETAILS_CHANNEL_ID = 0 \/ c.DETAILS_CHANNEL_ID = DETAILS_PLACEHOLDER,
                       "Please set a valid DETAILS_CHANNEL_ID")
    IN  IF c.MAX_CONCURRENT_DOWNLOADS < 1 \/ c.MAX_CONCURRENT_DOWNLOADS > 10
        THEN Append(e6, "MAX_CONCURRENT_DOWNLOADS should be between 1 and 10")
        ELSE IF c.QUEUE_MAX_SIZE < 10
        THEN Append(e6, "QUEUE_MAX_SIZE should be at least 10")
        ELSE AppendIf(e6, c.PROCESS_DELAY < 0, "PROCESS_DELAY cannot be negative")

\* validate_config(): `not x` is x = "" for a string and x = 0 for an integer.
validate_config(c) ==
    LET e1 == AppendIf(<<>>, c.BOT_TOKEN = "", "BOT_TOKEN is required")
        e2 == AppendIf(e1, c.TELEGRAM_API = 0, "TELEGRAM_API is required")
        e3 == AppendIf(e2, c.TELEGRAM_HASH = "", "TELEGRAM_HASH is required")
        e4 == AppendIf(e3, c.SOURCE_CHANNEL_ID = 0 \/ c.SOURCE_CHANNEL_ID = SOURCE_PLACEHOLDER,
                       "Please set a valid SOURCE_CHANNEL_ID")
        e5 == AppendIf(e4, c.DESTINATION_CHANNEL_ID = 0
                             \/ c.DESTINATION_CHANNEL_ID = DESTINATION_PLACEHOLDER,
                       "Please set a valid DESTINATION_CHANNEL_ID")
        e6 == AppendIf(e5, c.DETAILS_CHANNEL_ID = 0 \/ c.DETAILS_CHANNEL_ID = DETAILS_PLACEHOLDER,
                       "Please set a valid DETAILS_CHANNEL_ID")
        e7 == AppendIf(e6, c.MAX_CONCURRENT_DOWNLOADS < 1 \/ c.MAX_CONCURRENT_DOWNLOADS > 10,
                       "MAX_CONCURRENT_DOWNLOADS should be between 1 and 10")
        e8 == AppendIf(e7, c.QUEUE_MAX_SIZE < 10, "QUEUE_MAX_SIZE should be at least 10")
    IN  AppendIf(e8, c.PROCESS_DELAY < 0, "PROCESS_DELAY cannot be negative")

\* One call of validate_config on the attributes of the run.
Validate ==
    /\ errors = NotValidated
    /\ errors' = validate_config(config)
    /\ UNCHANGED <<impl, status, text, terabox_links, config, budget, queue, processing_active, nextMsg, active_downloads, disk, faults>>
    /\ UNCHANGED <<pc, pmLocals, dufLocals, hist, ingest>>

\* ------------------------------------------------------------------- queue
\* queue.Queue.put_nowait: raises queue.Full on a full queue, appends otherwise.
PutNowait(q, x) ==
    IF Full(q) THEN [raised |-> TRUE, q |-> q]
               ELSE [raised |-> FALSE, q |-> Append(q, x)]

\* --------------------------------------------------------------- ingestion
\* Mutant of Ingest: a message without a link is enqueued and acknowledged
\* like any other.
Ingest_EnqueuesWithoutLinks ==
    /\ LoopFree
    /\ nextMsg <= budget.msgs
    /\ \E n \in 0..MaxLinks :
         LET item == [msg |-> nextMsg, links |-> [k \in 1..n |-> k]]
             put == PutNowait(queue, item)
         IN  /\ queue' = put.q
             /\ ingest' = IF put.raised
                          THEN [result |-> "full", replied |-> FALSE, dropped |-> TRUE]
                          ELSE [ingest EXCEPT !.result = "ok", !.replied = DEBUG_MODE]
    /\ nextMsg' = nextMsg + 1
    /\ UNCHANGED <<impl, surface, budget, processing_active, active_downloads, disk, faults, pc, hist>>
    /\ UNCHANGED <<pmLocals, dufLocals>>

\* handle_terabox_source_message / handle_source_message: one inbound message
\* whose text yields n links (n = 0: no text, or no match).  The callback runs
\* up to its only await (reply_text), whose outcome changes nothing.
Ingest ==
    /\ LoopFree
    /\ nextMsg <= budget.msgs
    /\ \E n \in 0..MaxLinks :
         LET item == [msg |-> nextMsg, links |-> [k \in 1..n |-> k]]
             put == PutNowait(queue, item)
         IN  IF n = 0
             THEN /\ queue' = queue
                  /\ ingest' = [ingest EXCEPT !.result = "skipped", !.replied = FALSE]
             ELSE /\ queue' = put.q
                  /\ ingest' = IF put.raised
                               THEN [result |-> "full", replied |-> FALSE, dropped |-> TRUE]
                               ELSE [ingest EXCEPT !.result = "ok", !.replied = DEBUG_MODE]
    /\ nextMsg' = nextMsg + 1
    /\ UNCHANGED <<impl, surface, budget, processing_active, active_downloads, disk, faults, pc, hist>>
    /\ UNCHANGED <<pmLocals, dufLocals>>

\* The frame of process_message is gone once the call has returned.
Returned(t) ==
    /\ message_data' = [message_data EXCEPT ![t] = NoItem]
    /\ i' = [i EXCEPT ![t] = 0]
    /\ all_uploaded_file_ids' = [all_uploaded_file_ids EXCEPT ![t] = <<>>]
    /\ hist' = [hist EXCEPT ![t] = NoHist]
    /\ UNCHANGED <<file_ids, dufLocals>>

\* ------------------------------------------------------------------ driver
\* Mutant of DrvDequeue: the newest item is taken instead of the oldest.
DrvDequeue_Lifo ==
    /\ pc[Driver] = "drv_loop"
    /\ CanRun(Driver)
    /\ processing_active
    /\ queue # <<>>
    /\ message_data' = [message_data EXCEPT ![Driver] = queue[Len(queue)]]
    /\ queue' = SubSeq(queue, 1, Len(queue) - 1)
    /\ hist' = [hist EXCEPT ![Driver] = [NoHist EXCEPT !.entryActive = active_downloads]]
    /\ pc' = [pc EXCEPT ![Driver] = "pm_check"]
    /\ UNCHANGED <<impl, surface, budget, processing_active, nextMsg, active_downloads, disk, faults, ingest>>
    /\ UNCHANGED <<i, all_uploaded_file_ids, file_ids, dufLocals>>

\* Mutant of DrvDequeue: process_message is started without being awaited, so
\* the loop takes the next item while the previous call is parked at an await.
DrvDequeue_NotAwaited ==
    /\ pc[Driver] \in {"drv_loop", "duf_send", "pm_sleep", "sum_send"}
    /\ CanRun(Driver)
    /\ processing_active
    /\ queue # <<>>
    /\ message_data' = [message_data EXCEPT ![Driver] = Head(queue)]
    /\ queue' = Tail(queue)
    /\ hist' = [hist EXCEPT ![Driver] = [NoHist EXCEPT !.entryActive = active_downloads]]
    /\ pc' = [pc EXCEPT ![Driver] = "pm_check"]
    /\ UNCHANGED <<impl, surface, budget, processing_active, nextMsg, active_downloads, disk, faults, ingest>>
    /\ UNCHANGED <<i, all_uploaded_file_ids, file_ids, dufLocals>>

\* Mutant of DrvDequeue: the loop takes items without testing the flag.
DrvDequeue_IgnoresFlag ==
    /\ pc[Driver] = "drv_loop"
    /\ CanRun(Driver)
    /\ queue # <<>>
    /\ message_data' = [message_data EXCEPT ![Driver] = Head(queue)]
    /\ queue' = Tail(queue)
    /\ hist' = [hist EXCEPT ![Driver] = [NoHist EXCEPT !.entryActive = active_downloads]]
    /\ pc' = [pc EXCEPT ![Driver] = "pm_check"]
    /\ UNCHANGED <<impl, surface, budget, processing_active, nextMsg, active_downloads, disk,
                   faults, ingest>>
    /\ UNCHANGED <<i, all_uploaded_file_ids, file_ids, dufLocals>>

\* process_terabox_queue / process_queue: the branch that finds the queue
\* non-empty takes the head item and calls process_message.
DrvDequeue ==
    /\ pc[Driver] = "drv_loop"
    /\ CanRun(Driver)
    /\ processing_active
    /\ queue # <<>>
    /\ message_data' = [message_data EXCEPT ![Driver] = Head(queue)]
    /\ queue' = Tail(queue)
    /\ hist' = [hist EXCEPT ![Driver] = [NoHist EXCEPT !.entryActive = active_downloads]]
    /\ pc' = [pc EXCEPT ![Driver] = "pm_check"]
    /\ UNCHANGED <<impl, surface, budget, processing_active, nextMsg, active_downloads, disk, faults, ingest>>
    /\ UNCHANGED <<i, all_uploaded_file_ids, file_ids, dufLocals>>

\* Mutant of DrvIdle: the loop ends when it finds the queue empty instead of
\* sleeping and testing it again.
DrvIdle_Returns ==
    /\ pc[Driver] = "drv_loop"
    /\ CanRun(Driver)
    /\ processing_active
    /\ queue = <<>>
    /\ pc' = [pc EXCEPT ![Driver] = "done"]
    /\ UNCHANGED <<prog, pmLocals, dufLocals, hist, ingest>>

\* The branch that finds the queue empty: await asyncio.sleep(1).
DrvIdle ==
    /\ pc[Driver] = "drv_loop"
    /\ CanRun(Driver)
    /\ processing_active
    /\ queue = <<>>
    /\ pc' = [pc EXCEPT ![Driver] = "drv_idle"]
    /\ UNCHANGED <<prog, pmLocals, dufLocals, hist, ingest>>

\* asyncio.sleep(1) is over: back to the loop test.
DrvWake ==
    /\ pc[Driver] = "drv_idle"
    /\ CanRun(Driver)
    /\ pc' = [pc EXCEPT ![Driver] = "drv_loop"]
    /\ UNCHANGED <<prog, pmLocals, dufLocals, hist, ingest>>

\* Mutant of DrvTaskDone: an item whose admission was refused is put back
\* into the queue.
DrvTaskDone_Requeue ==
    /\ pc[Driver] = "pm_return"
    /\ pc' = [pc EXCEPT ![Driver] = "drv_loop"]
    /\ queue' = IF hist[Driver].refused
                THEN PutNowait(queue, message_data[Driver]).q
                ELSE queue
    /\ Returned(Driver)
    /\ UNCHANGED <<impl, surface, budget, processing_active, nextMsg, active_downloads, disk,
                   faults, ingest>>

\* process_message returned: task_done(), then the loop test again.
DrvTaskDone ==
    /\ pc[Driver] = "pm_return"
    /\ pc' = [pc EXCEPT ![Driver] = "drv_loop"]
    /\ Returned(Driver)
    /\ UNCHANGED <<prog, ingest>>

\* `while processing_active:` finds the flag cleared: the coroutine returns.
DrvExit ==
    /\ pc[Driver] = "drv_loop"
    /\ CanRun(Driver)
    /\ ~processing_active
    /\ pc' = [pc EXCEPT ![Driver] = "done"]
    /\ UNCHANGED <<prog, pmLocals, dufLocals, hist, ingest>>

\* processing_active = False.  Neither file assigns the flag while the loop
\* runs (the script does once asyncio.run has returned); the action stands for
\* any code of the process that clears the module-level flag.
Disable ==
    /\ LoopFree
    /\ processing_active
    /\ processing_active' = FALSE
    /\ UNCHANGED <<impl, surface, budget, queue, nextMsg, active_downloads, disk, faults>>
    /\ UNCHANGED <<pc, pmLocals, dufLocals, hist, ingest>>

\* ---------------------------------------------------------- status command
\* TeraboxProcessor(): a new processor starts with active_downloads = 0.
NewProcessor == [active_downloads |-> 0]

\* The processor whose counter the status command reads: the module-level
\* terabox_processor (bot), a processor created for the reply (standalone).
StatusProcessor ==
    IF impl = "bot" THEN [active_downloads |-> active_downloads] ELSE NewProcessor

\* terabox_status / status_terabox: the reply is built from the processor's
\* counter, the queue's qsize() and the flag.
Status ==
    /\ LoopFree
    /\ status' = [asked |-> TRUE,
                  active |-> StatusProcessor.active_downloads,
                  depth |-> Len(queue),
                  enabled |-> processing_active]
    /\ UNCHANGED <<impl, text, terabox_links, config, errors, budget, queue, processing_active, nextMsg,
                   active_downloads, disk, faults>>
    /\ UNCHANGED <<pc, pmLocals, dufLocals, hist, ingest>>

\* ------------------------------------------------------------ gate harness
\* A coroutine other than the driver calls process_message on the shared
\* processor with an item of n links.
Call(t) ==
    /\ pc[t] = "idle"
    /\ CanRun(t)
    /\ \E n \in 1..GateLinks :
         message_data' = [message_data EXCEPT
                            ![t] = [msg |-> t, links |-> [k \in 1..n |-> k]]]
    /\ hist' = [hist EXCEPT ![t] = [NoHist EXCEPT !.entryActive = active_downloads]]
    /\ pc' = [pc EXCEPT ![t] = "pm_check"]
    /\ UNCHANGED <<prog, ingest>>
    /\ UNCHANGED <<i, all_uploaded_file_ids, file_ids, dufLocals>>

CallerDone(t) ==
    /\ pc[t] = "pm_return"
    /\ pc' = [pc EXCEPT ![t] = "done"]
    /\ Returned(t)
    /\ UNCHANGED <<prog, ingest>>

\* --------------------------------------------------------- process_message
\* Mutant of PM_Check: the enumeration starts at the last link of the list
\* instead of the first.
PM_Check_StartsAtLast(t) ==
    /\ pc[t] = "pm_check"
    /\ IF active_downloads >= MAX_CONCURRENT_DOWNLOADS
       THEN /\ hist' = [hist EXCEPT ![t].refused = TRUE]
            /\ pc' = [pc EXCEPT ![t] = "pm_finally"]
            /\ UNCHANGED <<active_downloads, all_uploaded_file_ids, i>>
       ELSE /\ active_downloads' = active_downloads + 1
            /\ all_uploaded_file_ids' = [all_uploaded_file_ids EXCEPT ![t] = <<>>]
            /\ i' = [i EXCEPT ![t] = Len(message_data[t].links)]
            /\ hist' = [hist EXCEPT ![t].admitted = TRUE]
            /\ pc' = [pc EXCEPT ![t] = "pm_loop"]
    /\ UNCHANGED <<impl, surface, budget, queue, processing_active, nextMsg, disk, faults, ingest>>
    /\ UNCHANGED <<message_data, file_ids, dufLocals>>

\* if self.active_downloads >= self.max_downloads: return.  The return sits
\* inside the try, so control passes to the finally clause.  Otherwise
\* self.active_downloads += 1; all_uploaded_file_ids = []; enumerate(.., 1).
PM_Check(t) ==
    /\ pc[t] = "pm_check"
    /\ IF active_downloads >= MAX_CONCURRENT_DOWNLOADS
       THEN /\ hist' = [hist EXCEPT ![t].refused = TRUE]
            /\ pc' = [pc EXCEPT ![t] = "pm_finally"]
            /\ UNCHANGED <<active_downloads, all_uploaded_file_ids, i>>
       ELSE /\ active_downloads' = active_downloads + 1
            /\ all_uploaded_file_ids' = [all_uploaded_file_ids EXCEPT ![t] = <<>>]
            /\ i' = [i EXCEPT ![t] = 1]
            /\ hist' = [hist EXCEPT ![t].admitted = TRUE]
            /\ pc' = [pc EXCEPT ![t] = "pm_loop"]
    /\ UNCHANGED <<impl, surface, budget, queue, processing_active, nextMsg, disk, faults, ingest>>
    /\ UNCHANGED <<message_data, file_ids, dufLocals>>

\* Mutant of PM_Loop: the summary stands inside the loop and is sent as soon
\* as a link has produced an id.
PM_Loop_SummaryInsideLoop(t) ==
    /\ pc[t] = "pm_loop"
    /\ pc' = [pc EXCEPT ![t] = IF /\ i[t] <= Len(message_data[t].links)
                                  /\ all_uploaded_file_ids[t] = <<>>
                               THEN "duf_resolve" ELSE "pm_summary"]
    /\ UNCHANGED <<prog, pmLocals, dufLocals, hist, ingest>>

\* for i, link in enumerate(terabox_links, 1): the next link enters
\* download_and_upload_file; after the last one the summary test follows.
PM_Loop(t) ==
    /\ pc[t] = "pm_loop"
    /\ pc' = [pc EXCEPT ![t] = IF i[t] <= Len(message_data[t].links)
                               THEN "duf_resolve" ELSE "pm_summary"]
    /\ UNCHANGED <<prog, pmLocals, dufLocals, hist, ingest>>

\* ------------------------------------------------ download_and_upload_file
\* The frame of download_and_upload_file is gone once its value is consumed.
DropFrame(t) ==
    /\ file_ids' = [file_ids EXCEPT ![t] = <<>>]
    /\ filenames' = [filenames EXCEPT ![t] = <<>>]
    /\ j' = [j EXCEPT ![t] = 0]
    /\ uploaded_file_ids' = [uploaded_file_ids EXCEPT ![t] = <<>>]
    /\ temp_file_path' = [temp_file_path EXCEPT ![t] = Unbound]

\* Mutant of ReturnEmpty: the exception is caught nowhere and ends the task
\* that runs the call.
ReturnEmpty_Escapes(t) ==
    /\ pc' = [pc EXCEPT ![t] = "done"]
    /\ UNCHANGED file_ids

\* The outer `except Exception: return []` of download_and_upload_file.
ReturnEmpty(t) ==
    /\ file_ids' = [file_ids EXCEPT ![t] = <<>>]
    /\ pc' = [pc EXCEPT ![t] = "pm_extend"]

\* The for loop moves on to the next (file_url, file_name) pair.
NextFile(t) ==
    /\ j' = [j EXCEPT ![t] = @ + 1]
    /\ pc' = [pc EXCEPT ![t] = "duf_loop"]

\* Mutant of DUF_Resolve: the resolver's exception is not caught per link; it
\* ends the batch (control passes to the finally clause of process_message).
DUF_Resolve_AbortsBatch(t) ==
    /\ pc[t] = "duf_resolve"
    /\ \/ /\ Fault
          /\ pc' = [pc EXCEPT ![t] = "pm_finally"]
          /\ hist' = [hist EXCEPT ![t].resolved = @ + 1, ![t].batchFailed = TRUE,
                                  ![t].expected = <<>>,
                                  ![t].raisedAt = @ \cup {i[t]},
                                  ![t].kept = all_uploaded_file_ids[t]]
          /\ UNCHANGED <<dufLocals, file_ids>>
       \/ \E ans \in ResolverAnswers :
            /\ filenames' = [filenames EXCEPT ![t] = ans]
            /\ uploaded_file_ids' = [uploaded_file_ids EXCEPT ![t] = <<>>]
            /\ j' = [j EXCEPT ![t] = 1]
            /\ pc' = [pc EXCEPT ![t] = "duf_loop"]
            /\ hist' = [hist EXCEPT ![t].resolved = @ + 1,
                                    ![t].multi = (ans # SingleTarget),
                                    ![t].expected =
                                        IF hist[t].batchFailed \/ hist[t].batchRmRaised
                                        THEN <<>>
                                        ELSE @ \o [k \in 1..Len(ans) |->
                                                     <<message_data[t].msg, i[t], ans[k]>>]]
            /\ UNCHANGED <<temp_file_path, file_ids, faults>>
    /\ UNCHANGED <<world, disk, message_data, i, all_uploaded_file_ids, ingest>>

\* direct_link = terabox(url): raises, or answers with one file or a list.
DUF_Resolve(t) ==
    /\ pc[t] = "duf_resolve"
    /\ \/ /\ Fault
          /\ ReturnEmpty(t)
          /\ hist' = [hist EXCEPT ![t].resolved = @ + 1, ![t].batchFailed = TRUE,
                                  ![t].expected = <<>>,
                                  ![t].raisedAt = @ \cup {i[t]},
                                  ![t].kept = all_uploaded_file_ids[t]]
          /\ UNCHANGED dufLocals
       \/ \E ans \in ResolverAnswers :
            /\ filenames' = [filenames EXCEPT ![t] = ans]
            /\ uploaded_file_ids' = [uploaded_file_ids EXCEPT ![t] = <<>>]
            /\ j' = [j EXCEPT ![t] = 1]
            /\ pc' = [pc EXCEPT ![t] = "duf_loop"]
            /\ hist' = [hist EXCEPT ![t].resolved = @ + 1,
                                    ![t].multi = (ans # SingleTarget),
                                    ![t].expected =
                                        IF hist[t].batchFailed \/ hist[t].batchRmRaised
                                        THEN <<>>
                                        ELSE @ \o [k \in 1..Len(ans) |->
                                                     <<message_data[t].msg, i[t], ans[k]>>]]
            /\ UNCHANGED <<temp_file_path, file_ids, faults>>
    /\ UNCHANGED <<world, disk, message_data, i, all_uploaded_file_ids, ingest>>

\* for file_url, file_name in zip(file_urls, filenames): ... return uploaded_file_ids
DUF_Loop(t) ==
    /\ pc[t] = "duf_loop"
    /\ IF j[t] <= Len(filenames[t])
       THEN /\ pc' = [pc EXCEPT ![t] = "duf_fetch"]
            /\ UNCHANGED file_ids
       ELSE /\ file_ids' = [file_ids EXCEPT ![t] = uploaded_file_ids[t]]
            /\ pc' = [pc EXCEPT ![t] = "pm_extend"]
    /\ UNCHANGED <<prog, message_data, i, all_uploaded_file_ids, dufLocals, hist, ingest>>

\* Mutant of FetchRaises: the exception of the fetch is swallowed and the
\* upload of the file goes ahead.
FetchRaises_Continues(t) ==
    /\ pc' = [pc EXCEPT ![t] = "duf_send"]
    /\ UNCHANGED file_ids

\* Where an exception of the fetch lands: the per-file handler (bot, where the
\* try encloses the fetch) or the outer handler (standalone, where it does not).
FetchRaises(t) ==
    IF impl = "bot"
    THEN /\ pc' = [pc EXCEPT ![t] = "duf_except"]
         /\ UNCHANGED file_ids
    ELSE ReturnEmpty(t)

\* session.get / raise_for_status / open / iter_content:
\*   the request or its status check raises before temp_file_path is assigned;
\*   or the file is opened (created) and a chunk read raises;
\*   or the whole body is written and send_document is awaited.
DUF_Fetch(t) ==
    /\ pc[t] = "duf_fetch"
    /\ LET path == TempPath(i[t], filenames[t][j[t]])
           h == [hist[t] EXCEPT !.attempted = @ \cup {filenames[t][j[t]]},
                                !.fetchCalls = @ + 1]
       IN  \/ /\ Fault
              /\ FetchRaises(t)
              /\ hist' = [hist EXCEPT ![t] = [h EXCEPT !.fetchFailed = TRUE,
                                                       !.batchFailed = TRUE, !.expected = <<>>]]
              /\ UNCHANGED <<temp_file_path, disk>>
           \/ /\ Fault
              /\ temp_file_path' = [temp_file_path EXCEPT ![t] = path]
              /\ disk' = disk \cup {path}
              /\ FetchRaises(t)
              /\ hist' = [hist EXCEPT ![t] = [h EXCEPT !.fetchFailed = TRUE,
                                                       !.batchFailed = TRUE, !.expected = <<>>,
                                                       !.wrote = @ \cup {path}]]
           \/ /\ temp_file_path' = [temp_file_path EXCEPT ![t] = path]
              /\ disk' = disk \cup {path}
              /\ pc' = [pc EXCEPT ![t] = "duf_send"]
              /\ hist' = [hist EXCEPT ![t] = [h EXCEPT !.fetched = @ \cup {path}]]
              /\ UNCHANGED <<file_ids, faults>>
    /\ UNCHANGED <<world, ingest>>
    /\ UNCHANGED <<message_data, i, all_uploaded_file_ids, filenames, j, uploaded_file_ids>>

\* await send_document(...) completes: the id is appended, or it raised.
DUF_Send(t) ==
    /\ pc[t] = "duf_send"
    /\ CanRun(t)
    /\ \/ /\ uploaded_file_ids' = [uploaded_file_ids EXCEPT ![t] = Append(@, SentId(t))]
          /\ hist' = [hist EXCEPT ![t].relayed = Append(@, SentId(t)),
                                  ![t].batchRelayed = Append(@, SentId(t)),
                                  ![t].relayCalls = @ + 1]
          /\ pc' = [pc EXCEPT ![t] = IF impl = "bot" THEN "duf_cleanup" ELSE "duf_finally"]
          /\ UNCHANGED faults
       \/ /\ Fault
          /\ hist' = [hist EXCEPT ![t].relayRaised = TRUE, ![t].batchFailed = TRUE,
                                  ![t].expected = <<>>,
                                  ![t].relayCalls = @ + 1]
          /\ pc' = [pc EXCEPT ![t] = IF impl = "bot" THEN "duf_except" ELSE "duf_finally"]
          /\ UNCHANGED uploaded_file_ids
    /\ UNCHANGED <<world, disk, pmLocals, filenames, j, temp_file_path, ingest>>

\* os.remove(p) succeeds.
RmOk(t) == disk' = disk \ {temp_file_path[t]} /\ UNCHANGED <<faults, hist>>

\* os.remove(p) raises.
RmRaises(t) ==
    /\ Fault
    /\ hist' = [hist EXCEPT ![t].rmRaised = TRUE, ![t].batchRmRaised = TRUE,
                            ![t].expected = <<>>]
    /\ UNCHANGED disk

\* bot, after a successful upload: if os.path.exists(p): os.remove(p).  An
\* exception of os.remove is caught by the per-file handler.
Bot_Cleanup(t) ==
    /\ pc[t] = "duf_cleanup"
    /\ IF temp_file_path[t] \in disk
       THEN \/ RmOk(t) /\ NextFile(t)
            \/ RmRaises(t) /\ pc' = [pc EXCEPT ![t] = "duf_except"] /\ UNCHANGED j
       ELSE NextFile(t) /\ UNCHANGED <<disk, faults, hist>>
    /\ UNCHANGED <<world, pmLocals, filenames, uploaded_file_ids, temp_file_path, ingest>>

\* Mutant of Bot_Except: the handler logs and does not remove the file.
Bot_Except_NoRemove(t) ==
    /\ pc[t] = "duf_except"
    /\ NextFile(t)
    /\ UNCHANGED <<world, disk, faults, hist, message_data, i, all_uploaded_file_ids, ingest>>
    /\ UNCHANGED <<file_ids, filenames, uploaded_file_ids, temp_file_path>>

\* bot, `except Exception as upload_error`: the handler reads temp_file_path,
\* which is unbound when the first fetch of the call failed before assigning it
\* (UnboundLocalError, caught by the outer handler); an exception of os.remove
\* leaves the handler the same way.
Bot_Except(t) ==
    /\ pc[t] = "duf_except"
    /\ IF temp_file_path[t] = Unbound
       THEN ReturnEmpty(t) /\ UNCHANGED <<disk, faults, hist, j>>
       ELSE IF temp_file_path[t] \in disk
       THEN \/ RmOk(t) /\ NextFile(t) /\ UNCHANGED file_ids
            \/ RmRaises(t) /\ ReturnEmpty(t) /\ UNCHANGED j
       ELSE NextFile(t) /\ UNCHANGED <<disk, faults, hist, file_ids>>
    /\ UNCHANGED <<world, message_data, i, all_uploaded_file_ids, ingest>>
    /\ UNCHANGED <<filenames, uploaded_file_ids, temp_file_path>>

\* Mutant of Standalone_Finally: the file is removed only after a successful
\* upload, as if the cleanup stood at the end of the try block.
Standalone_Finally_OnSuccessOnly(t) ==
    /\ pc[t] = "duf_finally"
    /\ IF temp_file_path[t] \in disk /\ ~hist[t].relayRaised
       THEN RmOk(t) /\ NextFile(t)
       ELSE NextFile(t) /\ UNCHANGED <<disk, faults, hist>>
    /\ UNCHANGED <<world, message_data, i, all_uploaded_file_ids, ingest>>
    /\ UNCHANGED <<file_ids, filenames, uploaded_file_ids, temp_file_path>>

\* standalone, `finally:` of the upload: if os.path.exists(p): os.remove(p).
\* An exception of os.remove reaches the outer handler.
Standalone_Finally(t) ==
    /\ pc[t] = "duf_finally"
    /\ IF temp_file_path[t] \in disk
       THEN \/ RmOk(t) /\ NextFile(t) /\ UNCHANGED file_ids
            \/ RmRaises(t) /\ ReturnEmpty(t) /\ UNCHANGED j
       ELSE NextFile(t) /\ UNCHANGED <<disk, faults, hist, file_ids>>
    /\ UNCHANGED <<world, message_data, i, all_uploaded_file_ids, ingest>>
    /\ UNCHANGED <<filenames, uploaded_file_ids, temp_file_path>>

\* ------------------------------------------- process_message, after a link
\* Mutant of PM_Extend: the list is assigned instead of extended.
PM_Extend_Overwrites(t) ==
    /\ pc[t] = "pm_extend"
    /\ all_uploaded_file_ids' = [all_uploaded_file_ids EXCEPT ![t] = file_ids[t]]
    /\ IF i[t] < Len(message_data[t].links)
       THEN /\ pc' = [pc EXCEPT ![t] = "pm_sleep"]
            /\ UNCHANGED i
       ELSE /\ i' = [i EXCEPT ![t] = @ + 1]
            /\ pc' = [pc EXCEPT ![t] = "pm_loop"]
    /\ DropFrame(t)
    /\ hist' = [hist EXCEPT ![t] = LinkHist(@)]
    /\ UNCHANGED <<prog, message_data, ingest>>

\* Mutant of PM_Extend: the delay is skipped after a link that returned no id.
PM_Extend_NoSleepOnFailure(t) ==
    /\ pc[t] = "pm_extend"
    /\ all_uploaded_file_ids' = [all_uploaded_file_ids EXCEPT ![t] = @ \o file_ids[t]]
    /\ IF i[t] < Len(message_data[t].links) /\ file_ids[t] # <<>>
       THEN /\ pc' = [pc EXCEPT ![t] = "pm_sleep"]
            /\ UNCHANGED i
       ELSE /\ i' = [i EXCEPT ![t] = @ + 1]
            /\ pc' = [pc EXCEPT ![t] = "pm_loop"]
    /\ DropFrame(t)
    /\ hist' = [hist EXCEPT ![t] = LinkHist(@)]
    /\ UNCHANGED <<prog, message_data, ingest>>

\* all_uploaded_file_ids.extend(file_ids); then asyncio.sleep(PROCESS_DELAY)
\* unless this was the last link.
PM_Extend(t) ==
    /\ pc[t] = "pm_extend"
    /\ all_uploaded_file_ids' = [all_uploaded_file_ids EXCEPT ![t] = @ \o file_ids[t]]
    /\ IF i[t] < Len(message_data[t].links)
       THEN /\ pc' = [pc EXCEPT ![t] = "pm_sleep"]
            /\ UNCHANGED i
       ELSE /\ i' = [i EXCEPT ![t] = @ + 1]
            /\ pc' = [pc EXCEPT ![t] = "pm_loop"]
    /\ DropFrame(t)
    /\ hist' = [hist EXCEPT ![t] = LinkHist(@)]
    /\ UNCHANGED <<prog, message_data, ingest>>

\* asyncio.sleep(PROCESS_DELAY) is over: next link.
PM_Sleep(t) ==
    /\ pc[t] = "pm_sleep"
    /\ CanRun(t)
    /\ i' = [i EXCEPT ![t] = @ + 1]
    /\ pc' = [pc EXCEPT ![t] = "pm_loop"]
    /\ hist' = [hist EXCEPT ![t].sleeps = @ + 1]
    /\ UNCHANGED <<prog, message_data, all_uploaded_file_ids, file_ids, dufLocals, ingest>>

\* Mutant of PM_Summary: the summary is sent without testing the id list.
PM_Summary_Always(t) ==
    /\ pc[t] = "pm_summary"
    /\ hist' = [hist EXCEPT ![t].reportCalls =
                   Append(@, [links |-> message_data[t].links,
                              ids |-> all_uploaded_file_ids[t]])]
    /\ pc' = [pc EXCEPT ![t] = "sum_send"]
    /\ UNCHANGED <<prog, pmLocals, dufLocals, ingest>>

\* if all_uploaded_file_ids: await self.send_details_summary(...), which
\* builds the text and awaits send_message.
PM_Summary(t) ==
    /\ pc[t] = "pm_summary"
    /\ IF all_uploaded_file_ids[t] # <<>>
       THEN /\ hist' = [hist EXCEPT ![t].reportCalls =
                          Append(@, [links |-> message_data[t].links,
                                     ids |-> all_uploaded_file_ids[t]])]
            /\ pc' = [pc EXCEPT ![t] = "sum_send"]
       ELSE /\ pc' = [pc EXCEPT ![t] = "pm_finally"]
            /\ UNCHANGED hist
    /\ UNCHANGED <<prog, pmLocals, dufLocals, ingest>>

\* Mutant of Sum_Send: a summary whose send raised is sent again.
Sum_Send_Retries(t) ==
    /\ pc[t] = "sum_send"
    /\ CanRun(t)
    /\ \/ /\ hist' = [hist EXCEPT ![t].delivered =
                        Append(@, [links |-> message_data[t].links,
                                   ids |-> all_uploaded_file_ids[t]])]
          /\ pc' = [pc EXCEPT ![t] = "pm_finally"]
          /\ UNCHANGED faults
       \/ /\ Fault
          /\ hist' = [hist EXCEPT ![t].summaryRaised = TRUE]
          /\ pc' = [pc EXCEPT ![t] = "pm_summary"]
    /\ UNCHANGED <<world, disk, pmLocals, dufLocals, ingest>>

\* await send_message(DETAILS_CHANNEL_ID, ...) completes or raises; the
\* exception is caught and logged inside send_details_summary.
Sum_Send(t) ==
    /\ pc[t] = "sum_send"
    /\ CanRun(t)
    /\ \/ /\ hist' = [hist EXCEPT ![t].delivered =
                        Append(@, [links |-> message_data[t].links,
                                   ids |-> all_uploaded_file_ids[t]])]
          /\ UNCHANGED faults
       \/ /\ Fault
          /\ hist' = [hist EXCEPT ![t].summaryRaised = TRUE]
    /\ pc' = [pc EXCEPT ![t] = "pm_finally"]
    /\ UNCHANGED <<world, disk, pmLocals, dufLocals, ingest>>

\* Mutant of PM_Finally: the decrement is skipped when a link of the batch
\* failed, as if it stood at the end of the try block of a batch that raised.
PM_Finally_SkipOnFailure(t) ==
    /\ pc[t] = "pm_finally"
    /\ IF hist[t].batchFailed
       THEN UNCHANGED <<active_downloads, hist>>
       ELSE /\ active_downloads' = active_downloads - 1
            /\ hist' = [hist EXCEPT ![t].released = @ + 1]
    /\ pc' = [pc EXCEPT ![t] = "pm_return"]
    /\ UNCHANGED <<impl, surface, budget, queue, processing_active, nextMsg, disk, faults, ingest>>
    /\ UNCHANGED <<pmLocals, dufLocals>>

\* Mutant of PM_Finally: the decrement stands in the summary branch and is
\* skipped by a batch that sent no summary.
PM_Finally_OnlyAfterSummary(t) ==
    /\ pc[t] = "pm_finally"
    /\ IF hist[t].reportCalls = <<>>
       THEN UNCHANGED <<active_downloads, hist>>
       ELSE /\ active_downloads' = active_downloads - 1
            /\ hist' = [hist EXCEPT ![t].released = @ + 1]
    /\ pc' = [pc EXCEPT ![t] = "pm_return"]
    /\ UNCHANGED <<impl, surface, budget, queue, processing_active, nextMsg, disk, faults, ingest>>
    /\ UNCHANGED <<pmLocals, dufLocals>>

\* finally: self.active_downloads -= 1
PM_Finally(t) ==
    /\ pc[t] = "pm_finally"
    /\ active_downloads' = active_downloads - 1
    /\ hist' = [hist EXCEPT ![t].released = @ + 1]
    /\ pc' = [pc EXCEPT ![t] = "pm_return"]
    /\ UNCHANGED <<impl, surface, budget, queue, processing_active, nextMsg, disk, faults, ingest>>
    /\ UNCHANGED <<pmLocals, dufLocals>>

\* One step of a process_message call of task t.
PMStep(t) ==
    \/ PM_Check(t)
    \/ PM_Loop(t)
    \/ DUF_Resolve(t)
    \/ DUF_Loop(t)
    \/ DUF_Fetch(t)
    \/ DUF_Send(t)
    \/ Bot_Cleanup(t)
    \/ Bot_Except(t)
    \/ Standalone_Finally(t)
    \/ PM_Extend(t)
    \/ PM_Sleep(t)
    \/ PM_Summary(t)
    \/ Sum_Send(t)
    \/ PM_Finally(t)

\* ---------------------------------------------------------- specifications
InitCommon ==
    /\ impl \in Impls
    /\ queue = <<>>
    /\ processing_active = TRUE
    /\ nextMsg = 1
    /\ active_downloads = 0
    /\ disk = {}
    /\ faults = 0
    /\ message_data = [t \in Tasks |-> NoItem]
    /\ i = [t \in Tasks |-> 0]
    /\ all_uploaded_file_ids = [t \in Tasks |-> <<>>]
    /\ file_ids = [t \in Tasks |-> <<>>]
    /\ filenames = [t \in Tasks |-> <<>>]
    /\ j = [t \in Tasks |-> 0]
    /\ uploaded_file_ids = [t \in Tasks |-> <<>>]
    /\ temp_file_path = [t \in Tasks |-> Unbound]
    /\ hist = [t \in Tasks |-> NoHist]
    /\ ingest = NoIngest
    /\ status = NoStatus
    /\ terabox_links = NotCalled
    /\ errors = NotValidated

\* The shipped program: one driver task drains the queue, the ingestion
\* callback fills it.
Init ==
    /\ InitCommon
    /\ text = <<>>
    /\ config = TeraboxConfig
    /\ budget = [msgs |-> MaxMsgs, faults |-> PipelineFaults]
    /\ pc = [t \in Tasks |-> IF t = Driver THEN "drv_loop" ELSE "off"]

Next ==
    \/ Ingest
    \/ DrvDequeue
    \/ DrvIdle
    \/ DrvWake
    \/ DrvTaskDone
    \/ PMStep(Driver)

Spec == Init /\ [][Next]_vars

\* The same program with fewer messages and more failures.
InitBatch ==
    /\ InitCommon
    /\ text = <<>>
    /\ config = TeraboxConfig
    /\ budget = [msgs |-> BatchMsgs, faults |-> MaxFaults]
    /\ pc = [t \in Tasks |-> IF t = Driver THEN "drv_loop" ELSE "off"]

SpecBatch == InitBatch /\ [][Next]_vars

\* The shipped program under asyncio's scheduling: a task that is ready to run
\* is run, and an awaited external call or sleep eventually completes; the
\* source channel owes the program no further message.
DriverNext ==
    \/ DrvDequeue
    \/ DrvIdle
    \/ DrvWake
    \/ DrvTaskDone
    \/ PMStep(Driver)

InitLive ==
    /\ InitCommon
    /\ text = <<>>
    /\ config = TeraboxConfig
    /\ budget = [msgs |-> LiveMsgs, faults |-> LiveFaults]
    /\ pc = [t \in Tasks |-> IF t = Driver THEN "drv_loop" ELSE "off"]

SpecLive == InitLive /\ [][Next]_vars /\ WF_vars(DriverNext)

\* The gate's contract under concurrent use: NCallers coroutines each call
\* process_message once on one shared TeraboxProcessor.
InitGate ==
    /\ InitCommon
    /\ text = <<>>
    /\ config = TeraboxConfig
    /\ budget = [msgs |-> 0, faults |-> GateFaults]
    /\ pc = [t \in Tasks |-> IF t = Driver THEN "off" ELSE "idle"]

NextGate ==
    \E t \in Callers :
        \/ Call(t)
        \/ CallerDone(t)
        \/ PMStep(t)

SpecGate == InitGate /\ [][NextGate]_vars

\* The one coroutine that competes with the driver in SpecMixed.
OtherCaller == CHOOSE t \in Callers : \A u \in Callers : t <= u

\* The driver drains the queue while another coroutine calls process_message on
\* the same module-level processor: the only way the driver's own call can
\* find the gate closed.
InitMixed ==
    /\ InitCommon
    /\ text = <<>>
    /\ config = TeraboxConfig
    /\ budget = [msgs |-> MixMsgs, faults |-> MixFaults]
    /\ pc = [t \in Tasks |-> IF t = Driver THEN "drv_loop"
                             ELSE IF t = OtherCaller THEN "idle" ELSE "off"]

NextMixed ==
    \/ Next
    \/ NextGate

SpecMixed == InitMixed /\ [][NextMixed]_vars

\* The shipped program with its status command, and with the flag being
\* cleared at some point, under asyncio's scheduling.
InitOps ==
    /\ InitCommon
    /\ text = <<>>
    /\ config = TeraboxConfig
    /\ budget = [msgs |-> OpsMsgs, faults |-> OpsFaults]
    /\ pc = [t \in Tasks |-> IF t = Driver THEN "drv_loop" ELSE "off"]

NextOps ==
    \/ Next
    \/ Status
    \/ Disable
    \/ DrvExit

SpecOps == InitOps /\ [][NextOps]_vars /\ WF_vars(DriverNext \/ DrvExit)

\* extract_terabox_links on its own: any text of at most MaxText symbols,
\* no task running.
InitExtract ==
    /\ InitCommon
    /\ text \in Texts
    /\ config = TeraboxConfig
    /\ budget = [msgs |-> 0, faults |-> 0]
    /\ pc = [t \in Tasks |-> "off"]

NextExtract == Extract

SpecExtract == InitExtract /\ [][NextExtract]_vars

\* validate_config on its own: any attribute values of Configs, no task
\* running.
InitValidate ==
    /\ InitCommon
    /\ impl = "standalone"
    /\ text = <<>>
    /\ config \in Configs
    /\ budget = [msgs |-> 0, faults |-> 0]
    /\ pc = [t \in Tasks |-> "off"]

NextValidate == Validate

SpecValidate == InitValidate /\ [][NextValidate]_vars

\* ------------------------------------------------------------- type check
TypeOK ==
    /\ impl \in Impls
    /\ Len(queue) <= MaxMsgs
    /\ processing_active \in BOOLEAN
    /\ active_downloads \in Int
    /\ \A t \in Tasks : pc[t] \in Suspended \cup
         {"drv_loop", "pm_check", "pm_loop", "pm_extend", "pm_summary", "pm_finally",
          "pm_return", "duf_resolve", "duf_loop", "duf_fetch", "duf_cleanup",
          "duf_except", "duf_finally"}
    /\ Cardinality({t \in Tasks : pc[t] \notin Suspended}) <= 1

\* ------------------------------------------------------------------ claims
InCall(t) == pc[t] \notin {"off", "idle", "done", "drv_loop", "drv_idle"}

\* s begins with p.
IsPrefix(p, s) == Len(p) <= Len(s) /\ SubSeq(s, 1, Len(p)) = p

\* C1: under any interleaving of concurrent process_message calls on one
\* processor, refused ones included, 0 <= active_downloads <=
\* MAX_CONCURRENT_DOWNLOADS in every reachable state.
CE_C1_CounterInRange ==
    0 <= active_downloads /\ active_downloads <= MAX_CONCURRENT_DOWNLOADS

\* C2: a call entered while active_downloads >= max_downloads returns without
\* handing any link to the resolver and with active_downloads as it found it.
CE_C2_RefusalLeavesCounter ==
    \A t \in Tasks :
        (pc[t] = "pm_return" /\ hist[t].refused)
            => /\ hist[t].resolved = 0
               /\ active_downloads = hist[t].entryActive

\* C3: an admitted call decrements active_downloads exactly once, and has done
\* so when it returns, whichever way it leaves: all links succeeded, some or
\* all failed, or sending the summary raised.
Thm_C3_AdmittedReleasesOnce ==
    \A t \in Tasks :
        (InCall(t) /\ hist[t].admitted)
            => IF pc[t] = "pm_return"
               THEN hist[t].released = 1 /\ active_downloads = hist[t].entryActive
               ELSE hist[t].released = 0 /\ active_downloads = hist[t].entryActive + 1

Wit_C3_ReleasedAfterFailure ==
    /\ pc[Driver] = "pm_return"
    /\ hist[Driver].admitted
    /\ hist[Driver].released = 1
    /\ hist[Driver].batchFailed
    /\ hist[Driver].summaryRaised

\* C4: put_nowait is refused, the item dropped and the queue unchanged,
\* exactly when the queue already holds QUEUE_MAX_SIZE items; otherwise the
\* item is appended; the queue never holds more than QUEUE_MAX_SIZE items.
Thm_C4_EnqueueRefusedIffFull ==
    [][ /\ Len(queue') <= QUEUE_MAX_SIZE
        /\ (nextMsg' # nextMsg /\ ingest'.result \in {"ok", "full"})
             => /\ (ingest'.result = "full") <=> (Len(queue) >= QUEUE_MAX_SIZE)
                /\ (ingest'.result = "full") => queue' = queue
                /\ (ingest'.result = "ok")
                     => /\ Len(queue') = Len(queue) + 1
                        /\ SubSeq(queue', 1, Len(queue)) = queue
                        /\ queue'[Len(queue')].msg = nextMsg ]_vars

\* An enqueue accepted into the last free slot after an earlier message was
\* refused: a dequeue from the full queue came in between.
Wit_C4_AcceptedAfterRefusalAndDequeue ==
    /\ ingest.result = "ok"
    /\ ingest.dropped
    /\ Len(queue) = QUEUE_MAX_SIZE

\* C5: when the resolver answers with several entries, a fetch or relay
\* failure of one entry does not keep the others from being attempted, and
\* the ids of all entries relayed successfully are the link's outcome.
CE_C5_SubFileIsolation ==
    \A t \in Tasks :
        (pc[t] = "pm_extend" /\ hist[t].multi /\ ~hist[t].rmRaised)
            => /\ hist[t].attempted = {filenames[t][k] : k \in 1..Len(filenames[t])}
               /\ file_ids[t] = hist[t].relayed

\* C6: a batch in which send_document returned an id for at least one file
\* calls the report emitter exactly once, with exactly the ids send_document
\* returned in that batch.
CE_C6_OneReportWithAllIds ==
    \A t \in Tasks :
        (pc[t] = "pm_return" /\ hist[t].batchRelayed # <<>> /\ ~hist[t].batchRmRaised)
            => /\ Len(hist[t].reportCalls) = 1
               /\ hist[t].reportCalls[1].ids = hist[t].batchRelayed

\* C7: a batch in which no file was relayed successfully calls the report
\* emitter not at all and sends nothing to the tracking destination.
Thm_C7_NoReportWithoutSuccess ==
    \A t \in Tasks :
        (InCall(t) /\ hist[t].batchRelayed = <<>>)
            => hist[t].reportCalls = <<>> /\ hist[t].delivered = <<>>

Wit_C7_AllLinksFailed ==
    /\ pc[Driver] = "pm_return"
    /\ hist[Driver].admitted
    /\ hist[Driver].batchFailed
    /\ hist[Driver].resolved = Len(message_data[Driver].links)
    /\ hist[Driver].batchRelayed = <<>>
    /\ hist[Driver].reportCalls = <<>>

\* C8: standalone: after a failed fetch, no temporary file written by that
\* fetch exists once download_and_upload_file has returned.
CE_C8_StandaloneFetchCleanup ==
    \A t \in Tasks :
        (impl = "standalone" /\ pc[t] = "pm_extend" /\ hist[t].fetchFailed)
            => hist[t].wrote \cap disk = {}

\* C9: bot: after a failed fetch, no temporary file written by that fetch
\* exists once download_and_upload_file has returned (os.remove not failing).
Thm_C9_BotFetchCleanup ==
    \A t \in Tasks :
        (impl = "bot" /\ pc[t] = "pm_extend" /\ hist[t].fetchFailed /\ ~hist[t].rmRaised)
            => hist[t].wrote \cap disk = {}

Wit_C9_PartialFileRemoved ==
    /\ impl = "bot"
    /\ pc[Driver] = "pm_extend"
    /\ hist[Driver].wrote # {}
    /\ ~hist[Driver].rmRaised
    /\ hist[Driver].wrote \cap disk = {}

Thm_C11_ResolveFailureIsolated ==
    \A t \in Tasks :
        /\ (pc[t] = "pm_extend" /\ i[t] \in hist[t].raisedAt)
              => file_ids[t] = <<>> /\ hist[t].relayed = <<>>
        /\ (pc[t] = "pm_return" /\ hist[t].raisedAt # {})
              => /\ hist[t].resolved = Len(message_data[t].links)
                 /\ \A k \in 1..Len(all_uploaded_file_ids[t]) :
                        all_uploaded_file_ids[t][k][2] \notin hist[t].raisedAt
                 /\ IsPrefix(hist[t].kept, all_uploaded_file_ids[t])
                 /\ all_uploaded_file_ids[t] # <<>>
                      => hist[t].reportCalls =
                            <<[links |-> message_data[t].links,
                               ids |-> all_uploaded_file_ids[t]]>>

\* The resolver raised for one of two links and the ids of the other link
\* were delivered in the report.
Wit_C11_OtherLinkReported ==
    /\ pc[Driver] = "pm_return"
    /\ Len(message_data[Driver].links) = 2
    /\ Cardinality(hist[Driver].raisedAt) = 1
    /\ hist[Driver].delivered # <<>>
    /\ hist[Driver].delivered[1].ids = hist[Driver].batchRelayed

\* TeraboxConfig.DOWNLOAD_RETRIES / UPLOAD_RETRIES (src/terabox_config.py)
DOWNLOAD_RETRIES == 3
UPLOAD_RETRIES == 2

\* C12: a link is given up after a failed fetch only when the fetch was tried
\* again DOWNLOAD_RETRIES times, and after a failed relay only when the relay
\* was tried again UPLOAD_RETRIES times.
CE_C12_BoundedRetries ==
    \A t \in Tasks :
        pc[t] = "pm_extend"
            => /\ hist[t].fetchFailed => hist[t].fetchCalls >= 1 + DOWNLOAD_RETRIES
               /\ hist[t].relayRaised => hist[t].relayCalls >= 1 + UPLOAD_RETRIES

\* C13: when os.remove raises after send_document returned an id (no fetch
\* and no relay failing in the link), the id stays in the link's outcome and
\* the remaining files of the link are still processed.
CE_C13_CleanupFailureOnlyLogged ==
    \A t \in Tasks :
        (/\ pc[t] = "pm_extend"
         /\ hist[t].rmRaised
         /\ ~hist[t].fetchFailed
         /\ ~hist[t].relayRaised)
            => /\ file_ids[t] = hist[t].relayed
               /\ hist[t].attempted = {filenames[t][k] : k \in 1..Len(filenames[t])}

\* C14: the driver takes the oldest accepted item (ids grow in acceptance
\* order), only after the item before it has returned, and every item still
\* queued while an item is processed was accepted after it.
Thm_C14_ArrivalOrder ==
    [][ /\ \A k \in 1..Len(queue) :
              /\ queue[k].msg < nextMsg
              /\ k > 1 => queue[k - 1].msg < queue[k].msg
              /\ InCall(Driver) => message_data[Driver].msg < queue[k].msg
        /\ (message_data'[Driver] # message_data[Driver] /\ message_data'[Driver] # NoItem)
              => /\ pc[Driver] = "drv_loop"
                 /\ message_data[Driver] = NoItem
                 /\ queue # <<>>
                 /\ message_data'[Driver] = Head(queue)
                 /\ queue' = Tail(queue)
                 /\ \A k \in 1..Len(queue') :
                        message_data'[Driver].msg < queue'[k].msg ]_vars

\* An item was taken from a queue that held a later item too.
Wit_C14_TakenBeforeLaterItem ==
    /\ pc[Driver] = "pm_check"
    /\ message_data[Driver].msg > 1
    /\ queue # <<>>
    /\ message_data[Driver].msg < queue[1].msg

\* C15: the queue loses an item only when the driver is at its loop test with
\* no item in process; items enqueued while a call is parked at an await stay
\* queued until the call has returned.
Thm_C15_OneItemAtATime ==
    [][ /\ Len(queue') < Len(queue)
              => /\ pc[Driver] = "drv_loop"
                 /\ message_data[Driver] = NoItem
                 /\ Len(queue') = Len(queue) - 1
        /\ (InCall(Driver) /\ Len(queue') > Len(queue))
              => /\ pc'[Driver] = pc[Driver]
                 /\ message_data'[Driver] = message_data[Driver] ]_vars

\* The queue filled up and overflowed while a call was parked at an await.
Wit_C15_EnqueuedDuringCall ==
    /\ pc[Driver] \in {"duf_send", "pm_sleep", "sum_send"}
    /\ Len(queue) = QUEUE_MAX_SIZE
    /\ ingest.dropped

\* C19: once send_message has raised for the summary, the summary was
\* handed to the emitter once and is never delivered, the call goes straight
\* to its finally clause and returns with active_downloads released, and the
\* driver's next step is back to the loop test with the queue untouched.
Thm_C19_SummaryFailureSwallowed ==
    [][ \A t \in Tasks :
          /\ hist'[t].summaryRaised
                => /\ Len(hist'[t].reportCalls) = 1
                   /\ hist'[t].delivered = <<>>
                   /\ pc'[t] \in {"pm_finally", "pm_return"}
                   /\ pc'[t] = "pm_return"
                        => /\ hist'[t].released = 1
                           /\ active_downloads' = hist'[t].entryActive
          /\ (t = Driver /\ hist[t].summaryRaised /\ pc[t] = "pm_return" /\ pc'[t] # pc[t])
                => /\ pc'[t] = "drv_loop"
                   /\ processing_active'
                   /\ queue' = queue ]_vars

\* The summary raised, the call has returned and another item is waiting.
Wit_C19_ReturnedWithItemWaiting ==
    /\ pc[Driver] = "pm_return"
    /\ hist[Driver].summaryRaised
    /\ hist[Driver].released = 1
    /\ queue # <<>>

Queued(m) == \E k \in 1..Len(queue) : queue[k].msg = m

\* C16: every item accepted into the queue is eventually taken by the driver
\* and every one of its links is handed to the resolver before its call
\* returns (external calls completing, the pipeline enabled).
Thm_C16_AcceptedEventuallyProcessed ==
    \A m \in 1..MaxMsgs :
        Queued(m) ~> (/\ pc[Driver] = "pm_return"
                      /\ message_data[Driver].msg = m
                      /\ hist[Driver].admitted
                      /\ hist[Driver].resolved = Len(message_data[Driver].links))

\* A later item of two links has been processed to its end.
Wit_C16_SecondItemProcessed ==
    /\ pc[Driver] = "pm_return"
    /\ message_data[Driver].msg = 2
    /\ Len(message_data[Driver].links) = 2
    /\ hist[Driver].resolved = 2

\* C18: the driver task never ends, and an item that is queued when an
\* external call has failed is still processed to its end.
Thm_C18_FailureDoesNotStopDriver ==
    /\ [](pc[Driver] \notin {"off", "done"})
    /\ \A m \in 1..MaxMsgs :
          (faults > 0 /\ Queued(m)) ~> (pc[Driver] = "pm_return"
                                        /\ message_data[Driver].msg = m)

\* An item is taken after a call of an earlier item has failed.
Wit_C18_DequeuedAfterFailure ==
    /\ pc[Driver] = "pm_check"
    /\ faults > 0
    /\ message_data[Driver].msg > 1

Thm_C21_DelayBetweenLinks ==
    \A t \in Tasks :
        (InCall(t) /\ hist[t].admitted)
            => LET n == Len(message_data[t].links)
               IN  /\ pc[t] = "pm_sleep" => i[t] < n
                   /\ hist[t].sleeps = IF i[t] <= n THEN i[t] - 1 ELSE n - 1

\* The first of two links failed at the resolver and the delay was waited
\* before the second; none was waited after the second.
Wit_C21_DelayAfterFailedLink ==
    /\ pc[Driver] = "pm_return"
    /\ Len(message_data[Driver].links) = 2
    /\ 1 \in hist[Driver].raisedAt
    /\ hist[Driver].resolved = 2
    /\ hist[Driver].sleeps = 1

\* A call is in FETCHING or RELAYING: it runs session.get or awaits
\* send_document.
Transferring(t) == pc[t] \in {"duf_fetch", "duf_send"}

CE_C23_RefusalSurfaced ==
    (ingest.result = "full" /\ DEBUG_MODE) => ingest.replied

\* C24: a status command answered while the driver is parked inside an
\* admitted call reports the counter of the processor that drains the queue,
\* which is at least 1, with the queue's length and the flag.
CE_C24_StatusReportsDriverCounter ==
    [][ (status' # status /\ InCall(Driver) /\ hist[Driver].admitted)
            => /\ status'.active = active_downloads
               /\ status'.active >= 1
               /\ status'.depth = Len(queue)
               /\ status'.enabled = processing_active ]_vars

\* C25: while the flag is false no item leaves the queue and none is started;
\* clearing the flag leaves a call in progress where it is, and that call
\* goes on to return with every link handed to the resolver and, if an id was
\* collected, its report handed to the emitter.
Thm_C25_DisabledStopsDraining ==
    /\ [][ /\ ~processing_active
                 => /\ Len(queue') >= Len(queue)
                    /\ message_data'[Driver] \in {message_data[Driver], NoItem}
           /\ (processing_active /\ ~processing_active')
                 => /\ pc' = pc
                    /\ message_data' = message_data
                    /\ hist' = hist ]_vars
    /\ (~processing_active /\ InCall(Driver) /\ hist[Driver].admitted)
          ~> (/\ pc[Driver] = "pm_return"
              /\ hist[Driver].resolved = Len(message_data[Driver].links)
              /\ all_uploaded_file_ids[Driver] # <<>>
                   => Len(hist[Driver].reportCalls) = 1)

\* The flag was cleared during a batch of two links; the batch has run to its
\* end and delivered its report, and an item is left in the queue.
Wit_C25_BatchFinishedAfterDisable ==
    /\ ~processing_active
    /\ pc[Driver] = "pm_return"
    /\ hist[Driver].resolved = 2
    /\ hist[Driver].delivered # <<>>
    /\ queue # <<>>

\* C26: the k-th link handed to the resolver is the k-th link of the item's
\* list, and it is handed over only when nothing of an earlier link is left
\* in progress: no file list, no fetch and no relay of the call is open.
Thm_C26_LinksInListOrder ==
    [][ \A t \in Tasks :
          (hist'[t].resolved # hist[t].resolved /\ hist'[t].resolved > 0)
              => /\ pc[t] = "duf_resolve"
                 /\ hist'[t].resolved = hist[t].resolved + 1
                 /\ i[t] = hist'[t].resolved
                 /\ i[t] <= Len(message_data[t].links)
                 /\ message_data[t].links[i[t]] = hist'[t].resolved
                 /\ filenames[t] = <<>> /\ j[t] = 0 /\ uploaded_file_ids[t] = <<>>
                 /\ hist[t].fetchCalls = 0 /\ hist[t].relayCalls = 0
                 /\ hist[t].sleeps = hist[t].resolved ]_vars

\* The second link is at the resolver after the first link relayed a file.
Wit_C26_SecondLinkAfterFirst ==
    /\ pc[Driver] = "duf_loop"
    /\ i[Driver] = 2
    /\ hist[Driver].resolved = 2
    /\ Len(all_uploaded_file_ids[Driver]) >= 1
    /\ all_uploaded_file_ids[Driver][1][2] = 1

\* The strings of txt the catalog matches: a pattern's head, in either
\* spelling, that is the first such head of its run of non-space symbols,
\* together with everything up to the end of the run (at least one symbol).
CatalogMatches(txt) ==
    {SubSeq(txt, ab[1], ab[2]) :
        ab \in {cd \in (1..Len(txt)) \X (1..Len(txt)) :
                  /\ cd[1] < cd[2]
                  /\ \A k \in cd[1]..cd[2] : txt[k] # Space
                  /\ cd[2] = Len(txt) \/ txt[cd[2] + 1] = Space
                  /\ \E p \in DOMAIN terabox_patterns :
                        /\ CaseFold(txt[cd[1]]) = terabox_patterns[p]
                        /\ \A e \in 1..(cd[1] - 1) :
                              (\A k \in e..cd[1] : txt[k] # Space)
                                  => CaseFold(txt[e]) # terabox_patterns[p]}}

\* C27: the returned list has no duplicate entry and its elements are exactly
\* the strings of the text matched by a pattern of the catalog; it is empty
\* for the empty text and for a text without a match.
Thm_C27_ExtractDistinctMatches ==
    terabox_links # NotCalled =>
        /\ \A a, b \in DOMAIN terabox_links :
              a # b => terabox_links[a] # terabox_links[b]
        /\ {terabox_links[k] : k \in DOMAIN terabox_links} = CatalogMatches(text)
        /\ text = <<>> => terabox_links = <<>>
        /\ CatalogMatches(text) = {} => terabox_links = <<>>

\* The same link occurs twice in the text and once in the result.
Wit_C27_DuplicateRemoved ==
    /\ terabox_links # NotCalled
    /\ Len(terabox_links) = 1
    /\ Len(LinksAfter(text, Len(terabox_patterns))) = 2

\* C28: a message without text or without a link is dropped by the callback:
\* the queue is left as it was and nothing is replied; every item in the
\* queue, and every item the driver took from it, has at least one link.
Thm_C28_NoLinkNoEnqueue ==
    /\ [][ (nextMsg' # nextMsg /\ ingest'.result = "skipped")
              => (queue' = queue /\ ~ingest'.replied) ]_vars
    /\ [][ (nextMsg' # nextMsg /\ queue' # queue)
              => (Len(queue') = Len(queue) + 1 /\ queue'[Len(queue')].links # <<>>) ]_vars
    /\ [](\A k \in DOMAIN queue : queue[k].links # <<>>)
    /\ [](\A t \in Tasks : message_data[t].msg # 0 => message_data[t].links # <<>>)

\* A message without a link arrived while an item was waiting in the queue.
Wit_C28_SkippedWithItemWaiting ==
    /\ ingest.result = "skipped"
    /\ Len(queue) = 1
    /\ pc[Driver] = "pm_sleep"

\* The file download_and_upload_file is working on.
CurrentFile(t) == filenames[t][j[t]]

\* C29: a file is relayed only when its own fetch has completed, and fetched
\* only under a link the resolver answered; no file is fetched or relayed
\* twice, and a failing step adds no id: the ids of a link are those of its
\* successful relays, and a link whose resolve raised has none.
Thm_C29_ResolveFetchRelayOrder ==
    /\ [](\A t \in Tasks :
            /\ pc[t] \in {"duf_fetch", "duf_send"}
                  => /\ j[t] \in 1..Len(filenames[t])
                     /\ hist[t].resolved = i[t]
                     /\ i[t] \notin hist[t].raisedAt
            /\ pc[t] = "duf_send"
                  => /\ TempPath(i[t], CurrentFile(t)) \in hist[t].fetched
                     /\ TempPath(i[t], CurrentFile(t)) \in disk
                     /\ temp_file_path[t] = TempPath(i[t], CurrentFile(t))
            /\ hist[t].fetchCalls = Cardinality(hist[t].attempted)
            /\ hist[t].relayCalls <= Cardinality(hist[t].fetched)
            /\ \A k \in DOMAIN hist[t].relayed :
                  /\ TempPath(hist[t].relayed[k][2], hist[t].relayed[k][3]) \in hist[t].fetched
                  /\ \A l \in DOMAIN hist[t].relayed :
                        k # l => hist[t].relayed[k] # hist[t].relayed[l]
            /\ pc[t] \in {"duf_loop", "duf_fetch", "duf_send"}
                  => uploaded_file_ids[t] = hist[t].relayed
            /\ (pc[t] = "pm_extend" /\ i[t] \in hist[t].raisedAt)
                  => /\ hist[t].fetchCalls = 0 /\ hist[t].relayCalls = 0
                     /\ file_ids[t] = <<>>)
    /\ [][ \A t \in Tasks :
              /\ hist'[t].fetchCalls = hist[t].fetchCalls + 1
                    => /\ CurrentFile(t) \notin hist[t].attempted
                       /\ hist[t].fetchCalls = j[t] - 1
              /\ hist'[t].relayCalls = hist[t].relayCalls + 1
                    => /\ hist[t].relayCalls <= j[t] - 1
                       /\ hist[t].fetchCalls = j[t]
                       /\ \A k \in DOMAIN hist[t].relayed :
                             hist[t].relayed[k][3] # CurrentFile(t)
              /\ (faults' # faults /\ pc[t] \in {"duf_resolve", "duf_fetch", "duf_send"})
                    => /\ uploaded_file_ids'[t] = uploaded_file_ids[t]
                       /\ hist'[t].relayed = hist[t].relayed
                       /\ pc'[t] = "pm_extend" => file_ids'[t] = <<>> ]_vars

\* The fetch of the first file of a listing failed and was handled; the second
\* file was fetched and is being relayed.
Wit_C29_RelayAfterOtherFileFailed ==
    /\ pc[Driver] = "duf_send"
    /\ j[Driver] = 2
    /\ hist[Driver].fetchFailed
    /\ hist[Driver].relayCalls = 0

\* C30: the summary is built and sent only when every link of the item has
\* been through download_and_upload_file and its frame is gone; while the send
\* is pending the call still holds its slot, the slot is given back only when
\* every sending attempt has ended, and the queue is not read meanwhile.
Thm_C30_SummaryAfterLinksBeforeRelease ==
    /\ [](\A t \in Tasks :
            /\ pc[t] \in {"pm_summary", "sum_send"}
                  => /\ hist[t].resolved = Len(message_data[t].links)
                     /\ i[t] = Len(message_data[t].links) + 1
                     /\ filenames[t] = <<>> /\ j[t] = 0
                     /\ hist[t].admitted /\ hist[t].released = 0
                     /\ active_downloads >= 1
            /\ hist[t].reportCalls # <<>>
                  => hist[t].resolved = Len(message_data[t].links)
            /\ pc[t] = "sum_send"
                  => Len(hist[t].reportCalls) = Len(hist[t].delivered) + 1)
    /\ [][ \A t \in Tasks :
              /\ hist'[t].released # hist[t].released
                    => /\ pc[t] \notin {"pm_summary", "sum_send"}
                       /\ Len(hist[t].reportCalls)
                            = Len(hist[t].delivered) + (IF hist[t].summaryRaised THEN 1 ELSE 0)
              /\ Len(queue') < Len(queue)
                    => /\ pc[t] \notin {"pm_summary", "sum_send", "pm_finally"}
                       /\ hist[t].reportCalls = <<>> ]_vars

\* The summary of a two-link item was sent; the slot is still held and the
\* next item is waiting in the queue.
Wit_C30_SentBeforeRelease ==
    /\ pc[Driver] = "pm_finally"
    /\ Len(hist[Driver].delivered) = 1
    /\ Len(message_data[Driver].links) = 2
    /\ hist[Driver].released = 0
    /\ active_downloads = 1
    /\ queue # <<>>

\* C31: with the driver as the only caller of process_message the counter is
\* 0 or 1, it is 0 whenever the driver reaches the capacity test, and no call
\* takes the refusal branch: every item taken from the queue is admitted.
Thm_C31_SingleDriverNeverRefused ==
    /\ [](/\ active_downloads \in {0, 1}
          /\ \A t \in Tasks : ~hist[t].refused
          /\ pc[Driver] = "pm_check"
                => (active_downloads = 0 /\ active_downloads < MAX_CONCURRENT_DOWNLOADS)
          /\ active_downloads = 1 <=> (hist[Driver].admitted /\ hist[Driver].released = 0))
    /\ [][ pc[Driver] = "pm_check" /\ pc'[Driver] # "pm_check"
              => (pc'[Driver] = "pm_loop" /\ hist'[Driver].admitted
                  /\ active_downloads' = 1) ]_vars

\* A later item is admitted after a failure was injected, with another item
\* waiting behind it.
Wit_C31_LaterItemAdmitted ==
    /\ pc[Driver] = "pm_loop"
    /\ hist[Driver].admitted
    /\ message_data[Driver].msg >= 2
    /\ faults = PipelineFaults
    /\ active_downloads = 1
    /\ queue # <<>>

\* The conditions on the attributes, each with the error reported for it.
ConfigConditions(c) ==
    {[holds |-> c.BOT_TOKEN # "", error |-> "BOT_TOKEN is required"],
     [holds |-> c.TELEGRAM_API # 0, error |-> "TELEGRAM_API is required"],
     [holds |-> c.TELEGRAM_HASH # "", error |-> "TELEGRAM_HASH is required"],
     [holds |-> c.SOURCE_CHANNEL_ID # 0 /\ c.SOURCE_CHANNEL_ID # SOURCE_PLACEHOLDER,
      error |-> "Please set a valid SOURCE_CHANNEL_ID"],
     [holds |-> c.DESTINATION_CHANNEL_ID # 0
                  /\ c.DESTINATION_CHANNEL_ID # DESTINATION_PLACEHOLDER,
      error |-> "Please set a valid DESTINATION_CHANNEL_ID"],
     [holds |-> c.DETAILS_CHANNEL_ID # 0 /\ c.DETAILS_CHANNEL_ID # DETAILS_PLACEHOLDER,
      error |-> "Please set a valid DETAILS_CHANNEL_ID"],
     [holds |-> 1 <= c.MAX_CONCURRENT_DOWNLOADS /\ c.MAX_CONCURRENT_DOWNLOADS <= 10,
      error |-> "MAX_CONCURRENT_DOWNLOADS should be between 1 and 10"],
     [holds |-> c.QUEUE_MAX_SIZE >= 10, error |-> "QUEUE_MAX_SIZE should be at least 10"],
     [holds |-> c.PROCESS_DELAY >= 0, error |-> "PROCESS_DELAY cannot be negative"]}

\* C32: validate_config returns a list; the list is empty exactly when all
\* nine conditions hold, and otherwise holds the error of every violated
\* condition once and nothing else.
Thm_C32_OneErrorPerViolatedCondition ==
    errors # NotValidated =>
        LET violated == {cnd \in ConfigConditions(config) : ~cnd.holds}
        IN  /\ DOMAIN errors = 1..Len(errors)
            /\ errors = <<>> <=> (\A cnd \in ConfigConditions(config) : cnd.holds)
            /\ Len(errors) = Cardinality(violated)
            /\ \A cnd \in violated :
                  Cardinality({k \in DOMAIN errors : errors[k] = cnd.error}) = 1
            /\ \A k \in DOMAIN errors : \E cnd \in violated : errors[k] = cnd.error

\* Two numeric settings are out of range and everything else is valid: two
\* errors are returned.
Wit_C32_TwoNumericErrors ==
    /\ errors # NotValidated
    /\ config.MAX_CONCURRENT_DOWNLOADS > 10
    /\ config.QUEUE_MAX_SIZE < 10
    /\ Len(errors) = 2

====
